---- MODULE Spec2Model ----
(***************************************************************************)
(* Model of src/twitter_sentiment.ipynb: the text normaliser lite_parser   *)
(* and the label tables (xmap, sent_map) of the sentiment notebook.        *)
(* A Python string is a sequence of one-character strings; a list of       *)
(* strings is a sequence of such sequences.                                *)
(***************************************************************************)
EXTENDS Integers, Sequences, FiniteSets, TLC

\* ---------------------------------------------------------------- bounds
MaxLen == 4

\* ------------------------------------------------------------ characters
Letters == {"a","b","c","d","e","f","g","h","i","j","k","l","m","n","o","p",
            "q","r","s","t","u","v","w","x","y","z",
            "A","B","C","D","E","F","G","H","I","J","K","L","M","N","O","P",
            "Q","R","S","T","U","V","W","X","Y","Z"}
Digits == {"0","1","2","3","4","5","6","7","8","9"}
\* the characters str.split() and str.strip() treat as whitespace
Whitespace == {" ", "\t", "\n", "\r"}
\* the class [a-zA-Z@#$0-9.,!?'] of the character filter
AllowedChars == Letters \cup Digits \cup {"@", "#", "$", ".", ",", "!", "?", "'"}

Link == <<"#","l","i","n","k">>
Mention == <<"@","m","e","n","t","i","o","n">>
Cashtag == <<"$","c","a","s","h","t","a","g">>
Number == <<"#","n","u","m","b","e","r">>

\* ------------------------------------------------------- string helpers
\* s[i:] for a 1-based i
Drop(s, i) == SubSeq(s, i, Len(s))

\* s.startswith(p)
StartsWith(s, p) == Len(s) >= Len(p) /\ SubSeq(s, 1, Len(p)) = p

\* index of the first position >= i of s whose character is not in S
\* (Len(s)+1 when there is none): the end of a greedy run S*
RECURSIVE RunEnd(_, _, _)
RunEnd(s, i, S) ==
    IF i > Len(s) \/ s[i] \notin S THEN i ELSE RunEnd(s, i + 1, S)

\* index of the first position >= i of s whose character is in S
\* (Len(s)+1 when there is none): the end of a greedy run [^S]*
RECURSIVE RunEndNot(_, _, _)
RunEndNot(s, i, S) ==
    IF i > Len(s) \/ s[i] \in S THEN i ELSE RunEndNot(s, i + 1, S)

\* str.strip(): drop leading and trailing whitespace
RECURSIVE LastNonSpace(_, _)
LastNonSpace(s, j) ==
    IF j = 0 \/ s[j] \notin Whitespace THEN j ELSE LastNonSpace(s, j - 1)

strip(s) ==
    LET i == RunEnd(s, 1, Whitespace)
        j == LastNonSpace(s, Len(s))
    IN  IF i > j THEN << >> ELSE SubSeq(s, i, j)

\* str.split() without argument: the maximal runs of non-whitespace
RECURSIVE split_from(_, _)
split_from(s, i) ==
    LET b == RunEnd(s, i, Whitespace)
    IN  IF b > Len(s) THEN << >>
        ELSE LET e == RunEndNot(s, b, Whitespace)
             IN  <<SubSeq(s, b, e - 1)>> \o split_from(s, e)

split(s) == split_from(s, 1)

\* sep.join(l)
RECURSIVE join(_, _)
join(sep, l) ==
    IF l = << >> THEN << >>
    ELSE IF Len(l) = 1 THEN l[1]
    ELSE l[1] \o sep \o join(sep, Tail(l))

\* str.split(sep) with an explicit, non-empty separator: cut at every
\* non-overlapping occurrence of sep, left to right; empty pieces are kept
RECURSIVE split_sep_from(_, _, _, _)
split_sep_from(s, sep, b, i) ==
    IF i + Len(sep) - 1 > Len(s) THEN <<SubSeq(s, b, Len(s))>>
    ELSE IF SubSeq(s, i, i + Len(sep) - 1) = sep
         THEN <<SubSeq(s, b, i - 1)>>
              \o split_sep_from(s, sep, i + Len(sep), i + Len(sep))
         ELSE split_sep_from(s, sep, b, i + 1)

split_sep(s, sep) == split_sep_from(s, sep, 1, 1)

\* the literal separator '\w+' of the last line of lite_parser
WordSep == <<"\\", "w", "+">>

\* ---------------------------------------------------------- html.unescape
\* the entries of html.entities.html5 that the input alphabet can spell
\* (with and without the trailing semicolon, as the table has them)
html5 == [n \in {<<"l","t">>, <<"l","t",";">>} |-> <<"<">>]

\* the characters that end the name of a named character reference:
\* the complement of [^\t\n\f <&#;]
NameStop == {"\t", "\n", "\f", " ", "<", "&", "#", ";"}
MaxNameLen == 32

\* _replace_charref for a named reference r (the text after the '&'):
\* the whole name, else its longest prefix of length >= 2 that is in the
\* table followed by the rest, else the reference unchanged
RECURSIVE longest_prefix(_, _)
longest_prefix(r, x) ==
    IF x < 2 THEN <<"&">> \o r
    ELSE IF SubSeq(r, 1, x) \in DOMAIN html5
         THEN html5[SubSeq(r, 1, x)] \o Drop(r, x + 1)
         ELSE longest_prefix(r, x - 1)

replace_charref(r) ==
    IF r \in DOMAIN html5 THEN html5[r] ELSE longest_prefix(r, Len(r) - 1)

\* html.unescape(s): every match of &([^\t\n\f <&#;]{1,32};?) is replaced,
\* left to right; a string without '&' is returned as it is
RECURSIVE unescape_from(_, _)
unescape_from(s, i) ==
    IF i > Len(s) THEN << >>
    ELSE IF s[i] # "&" THEN <<s[i]>> \o unescape_from(s, i + 1)
    ELSE LET e0 == RunEndNot(s, i + 1, NameStop)
             e1 == IF e0 - (i + 1) > MaxNameLen THEN i + 1 + MaxNameLen ELSE e0
             e  == IF e1 <= Len(s) /\ s[e1] = ";" THEN e1 + 1 ELSE e1
         IN  IF e1 = i + 1 THEN <<"&">> \o unescape_from(s, i + 1)
             ELSE replace_charref(SubSeq(s, i + 1, e - 1)) \o unescape_from(s, e)

unescape(s) == unescape_from(s, 1)

\* ------------------------------------------------------------ lite_parser
\* re.sub('^' + prefix + '.*', repl, z): when z starts with prefix, the
\* match runs to the first newline (or the end) and is replaced by repl
sub_prefix(prefix, repl, z) ==
    IF StartsWith(z, prefix)
    THEN repl \o Drop(z, RunEndNot(z, 1, {"\n"}))
    ELSE z

\* re.sub('^http.*', '#link', z)
sub_link(z) == sub_prefix(<<"h","t","t","p">>, Link, z)

\* re.sub('^\@', '@mention', z): the sign alone is replaced
sub_mention_sign(z) == IF StartsWith(z, <<"@">>) THEN Mention \o Drop(z, 2) ELSE z

\* re.sub('^\@.*', '@mention', z)
sub_mention(z) == sub_prefix(<<"@">>, Mention, z)

\* re.sub('^\$', '$cashtag', z): the sign alone is replaced
sub_cashtag_sign(z) == IF StartsWith(z, <<"$">>) THEN Cashtag \o Drop(z, 2) ELSE z

\* re.sub('^\$.*', '$cashtag', z)
sub_cashtag(z) == sub_prefix(<<"$">>, Cashtag, z)

\* length of the match of ^\d+\.*\d+ at the start of z, 0 when there is
\* none: digits, dots and digits when digits follow the dots; otherwise
\* the leading digits alone, which must then be at least two
number_match(z) ==
    LET n == RunEnd(z, 1, Digits) - 1
        d == RunEnd(z, n + 1, {"."})
        m == RunEnd(z, d, Digits)
    IN  IF n = 0 THEN 0
        ELSE IF m > d THEN m - 1
        ELSE IF n >= 2 THEN n
        ELSE 0

\* re.sub('^\d+\.*\d+', '#number', z)
sub_number(z) ==
    IF number_match(z) > 0 THEN Number \o Drop(z, number_match(z) + 1) ELSE z

\* re.sub("[^a-zA-Z@#$0-9.,!?']", '_', z)
filter_chars_underscore(z) == [k \in 1..Len(z) |-> IF z[k] \in AllowedChars THEN z[k] ELSE "_"]

\* re.sub("[^a-zA-Z@#$0-9.,!?']", '', z)
filter_chars_delete(z) == SelectSeq(z, LAMBDA c : c \in AllowedChars)

\* re.sub("[^a-zA-Z@#$0-9.,!?'+\\\\]", ' ', z): the class extended by + and \
filter_chars_more(z) ==
    [k \in 1..Len(z) |-> IF z[k] \in AllowedChars \cup {"+", "\\"} THEN z[k] ELSE " "]

\* re.sub("[^a-zA-Z@#$0-9.,!?']", ' ', z)
filter_chars(z) == [k \in 1..Len(z) |-> IF z[k] \in AllowedChars THEN z[k] ELSE " "]

\* the value of t_post after the five list comprehensions (source lines 61-71)
rewrite_tokens(post) ==
    LET t == split(unescape(post))
    IN  [k \in 1..Len(t) |->
            filter_chars(sub_number(sub_cashtag(sub_mention(sub_link(t[k])))))]

\* [z.strip() for z in t_post if len(z.strip()) > 0]
RECURSIVE strip_nonblank(_)
strip_nonblank(l) ==
    IF l = << >> THEN << >>
    ELSE IF Len(strip(l[1])) > 0 THEN <<strip(l[1])>> \o strip_nonblank(Tail(l))
    ELSE strip_nonblank(Tail(l))

\* ' '.join(...).strip().split('\w+') followed by ' '.join(t_post)
join_tokens(t_post) ==
    join(<<" ">>, split_sep(strip(join(<<" ">>, strip_nonblank(t_post))), WordSep))

lite_parser(post) == join_tokens(rewrite_tokens(post))

\* --------------------------------------------------------------- inputs
\* the pieces the posts are made of: a letter, the link prefix, the
\* mention and cashtag signs, the placeholder sign, a digit, the decimal
\* point, a character outside the allowed class, a blank, an entity
\* reference, and the text of the separator of the final split
Pieces == {<<"h">>, <<"h","t","t","p">>, <<"@">>, <<"$">>, <<"#">>, <<"1">>,
           <<".">>, <<"-">>, <<" ">>, <<"&","l","t",";">>, WordSep}

\* the string a sequence of pieces spells
RECURSIVE concat(_)
concat(f) == IF f = << >> THEN << >> ELSE f[1] \o concat(Tail(f))

\* ------------------------------------------------------------ label tables
NRows == 2

Sentiments == {"positive", "negative", "neutral"}

\* the convention of the input file: 0 is negative, 1 is positive, 2 is neutral
dataset_label == [d \in 0..2 |-> IF d = 0 THEN "negative" ELSE IF d = 1 THEN "positive" ELSE "neutral"]

\* model.config.id2label of ProsusAI/finbert, as the notebook prints it
finbert_id2label == [k \in 0..2 |-> IF k = 0 THEN "positive" ELSE IF k = 1 THEN "negative" ELSE "neutral"]

\* the id2label a checkpoint gets when its configuration names no labels
default_id2label == [k \in 0..2 |-> IF k = 0 THEN "LABEL_0" ELSE IF k = 1 THEN "LABEL_1" ELSE "LABEL_2"]

\* the tables a loaded checkpoint can carry: the three sentiments in any
\* order, or the default names
Id2LabelTables ==
    {t \in [0..2 -> Sentiments] : \A a, b \in 0..2 : t[a] = t[b] => a = b}
        \cup {default_id2label}

\* xmap = {'neutral': 2,'positive': 0,'negative': 1}: the ids of the model
xmap_model_ids == [c \in Sentiments |-> IF c = "neutral" THEN 2 ELSE IF c = "positive" THEN 0 ELSE 1]

\* xmap = {'neutral': 2,'positive': 1,'negative': 0}
xmap_literal == [c \in Sentiments |-> IF c = "neutral" THEN 2 ELSE IF c = "positive" THEN 1 ELSE 0]

\* sent_map = {0:0,1:1,2:2}: no switch
sent_map_identity == [d \in 0..2 |-> d]

\* sent_map = {1:0,0:1,2:2}
sent_map_literal == [d \in 0..2 |-> IF d = 1 THEN 0 ELSE IF d = 0 THEN 1 ELSE 2]

\* the value pandas puts where Series.map finds no key (not a label)
NaN == -1

\* df['label'].map(m): a label that is no key of m becomes NaN
series_map(m, col) ==
    [i \in 1..Len(col) |-> IF col[i] \in DOMAIN m THEN m[col[i]] ELSE NaN]

\* [xm[z['label']] for z in cl] with a default in place of the KeyError
map_predictions_default(xm, cl) ==
    [raised |-> FALSE,
     value |-> [i \in 1..Len(cl) |-> IF cl[i] \in DOMAIN xm THEN xm[cl[i]] ELSE 2]]

\* [xm[z['label']] for z in cl]: the subscription raises KeyError at a
\* label that is no key of xm, and then the comprehension yields no list
map_predictions(xm, cl) ==
    IF \E i \in 1..Len(cl) : cl[i] \notin DOMAIN xm
    THEN [raised |-> TRUE, value |-> << >>]
    ELSE [raised |-> FALSE, value |-> [i \in 1..Len(cl) |-> xm[cl[i]]]]

\* the posts of the texts column of the input file
SamplePosts ==
    << <<"@","h"," ","$","h"," ","1","1",".","1">>, <<"h","t","t","p",":","h"," ","h","-","h">> >>

\* the label column an input file can hold: the three labels, and one
\* integer outside them
FileLabels == 0..3

\* ------------------------------------------------------- split and training
\* how far around the sample's row count the row counts of the input go
RowSpread == 13

\* the rows of in/jfr_sample.txt (the support of the printed reports)
SampleRows == 345

\* test_size=0.1, as a divisor
TestDivisor == 10

\* per_device_train_batch_size=32, on one device
BatchSize == 32

\* num_train_epochs=5
NumEpochs == 5

\* the step of the path models/checkpoint-45/
LoadedStep == 45

\* the test share of train_test_split rounded down
n_test_floor(n) == n \div TestDivisor

\* train_test_split(..., test_size=0.1): the test set has ceil(0.1 * n)
\* rows (the product in floating point has this ceiling for every n the
\* model reaches), the other rows are the training set
n_test_of(n) == (n + TestDivisor - 1) \div TestDivisor

\* the batches of one epoch: len(dataloader) without drop_last
steps_per_epoch(n) == (n + BatchSize - 1) \div BatchSize

\* calls counts the applications of lite_parser made so far: post is the
\* argument of the first, out its result, t_post its token list before the
\* final join, and out2 the result of lite_parser(out).
\* cell is the last notebook cell that ran; file_label is the label column
\* of in/jfr_sample.txt, df_texts and df_label the columns of df, id2label
\* the label table of the loaded model, classified the labels nlp returned,
\* and xmap, y_predict, y_true, sent_map the notebook's globals of these
\* names; train_label is the label column handed to the trainer, and
\* report the two arrays of the last classification_report call.
\* n_rows is the number of rows of df at the split, n_test, n_val and
\* n_train the sizes of the three sets, global_step and epoch the trainer's
\* counters, checkpoints the steps of the directories models/checkpoint-N,
\* best_checkpoint the one the trainer holds as best, loaded_checkpoint the
\* one the last cell loaded (0: none), train_pc the place in that run.
VARIABLES post, t_post, out, out2, calls,
          cell, file_label, df_texts, df_label, id2label, classified,
          xmap, y_predict, y_true, sent_map, train_label, report,
          n_rows, n_test, n_val, n_train, global_step, epoch, checkpoints,
          best_checkpoint, loaded_checkpoint, train_pc

parser_vars == <<post, t_post, out, out2, calls>>
notebook_vars == <<cell, file_label, df_texts, df_label, id2label, classified,
                   xmap, y_predict, y_true, sent_map, train_label, report>>
training_vars == <<n_rows, n_test, n_val, n_train, global_step, epoch,
                   checkpoints, best_checkpoint, loaded_checkpoint, train_pc>>
vars == <<parser_vars, notebook_vars, training_vars>>

\* nothing of the notebook has run
NotebookInit ==
    /\ post = << >>
    /\ t_post = << >>
    /\ out = << >>
    /\ out2 = << >>
    /\ calls = 0
    /\ cell = "start"
    /\ file_label \in [1..NRows -> FileLabels]
    /\ df_texts = << >>
    /\ df_label = << >>
    /\ id2label = << >>
    /\ classified = << >>
    /\ xmap = << >>
    /\ y_predict = << >>
    /\ y_true = << >>
    /\ sent_map = << >>
    /\ train_label = << >>
    /\ report = << >>
    /\ n_rows = SampleRows
    /\ n_test = 0
    /\ n_val = 0
    /\ n_train = 0
    /\ global_step = 0
    /\ epoch = 0
    /\ checkpoints = {}
    /\ best_checkpoint = 0
    /\ loaded_checkpoint = 0
    /\ train_pc = "start"

\* the argument of lite_parser is any string of at most MaxLen pieces
ParserInit ==
    /\ \E n \in 0..MaxLen : \E f \in [1..n -> Pieces] : post = concat(f)
    /\ t_post = << >>
    /\ out = << >>
    /\ out2 = << >>
    /\ calls = 0
    /\ cell = "start"
    /\ file_label = [i \in 1..NRows |-> 0]
    /\ df_texts = << >>
    /\ df_label = << >>
    /\ id2label = << >>
    /\ classified = << >>
    /\ xmap = << >>
    /\ y_predict = << >>
    /\ y_true = << >>
    /\ sent_map = << >>
    /\ train_label = << >>
    /\ report = << >>
    /\ n_rows = SampleRows
    /\ n_test = 0
    /\ n_val = 0
    /\ n_train = 0
    /\ global_step = 0
    /\ epoch = 0
    /\ checkpoints = {}
    /\ best_checkpoint = 0
    /\ loaded_checkpoint = 0
    /\ train_pc = "start"

\* out = lite_parser(post)
Parse ==
    /\ calls = 0
    /\ t_post' = rewrite_tokens(post)
    /\ out' = lite_parser(post)
    /\ calls' = 1
    /\ UNCHANGED <<post, out2, notebook_vars, training_vars>>

\* out2 = lite_parser(out)
Reparse ==
    /\ calls = 1
    /\ out2' = lite_parser(out)
    /\ calls' = 2
    /\ UNCHANGED <<post, t_post, out, notebook_vars, training_vars>>

ParserNext == Parse \/ Reparse

ParserSpec == ParserInit /\ [][ParserNext]_vars

\* ---------------------------------------------------------- notebook cells
\* the texts column of the input file
file_texts == [i \in 1..NRows |-> SamplePosts[((i - 1) % Len(SamplePosts)) + 1]]

\* model = AutoModelForSequenceClassification.from_pretrained(...): the
\* label table comes with the checkpoint
LoadModel ==
    /\ cell = "start"
    /\ id2label' \in Id2LabelTables
    /\ cell' = "loaded"
    /\ UNCHANGED <<parser_vars, training_vars, file_label, df_texts, df_label, classified,
                   xmap, y_predict, y_true, sent_map, train_label, report>>

\* an evaluation that reads the file only when there is no df yet
evaluate_no_reload(to) ==
    /\ df_texts' = [i \in 1..NRows |-> lite_parser(file_texts[i])]
    /\ df_label' = IF df_label = << >> THEN file_label ELSE df_label
    /\ \E ids \in [1..NRows -> 0..2] :
          classified' = [i \in 1..NRows |-> id2label[ids[i]]]
    /\ xmap' = xmap_literal
    /\ LET r == map_predictions(xmap', classified')
       IN  IF r.raised
           THEN /\ cell' = "error"
                /\ UNCHANGED <<y_predict, y_true, report>>
           ELSE /\ cell' = to
                /\ y_predict' = r.value
                /\ y_true' = df_label'
                /\ report' = [y_pred |-> y_predict', y_true |-> y_true']
    /\ UNCHANGED <<parser_vars, training_vars, file_label, id2label, sent_map, train_label>>

\* the body shared by the two evaluation cells: read the file, normalise
\* the texts, classify, map the predicted labels with xmap, take y_true
\* from df and hand both to classification_report; the pipeline names each
\* text by the model's id2label
evaluate(to) ==
    /\ df_texts' = [i \in 1..NRows |-> lite_parser(file_texts[i])]
    /\ df_label' = file_label
    /\ \E ids \in [1..NRows -> 0..2] :
          classified' = [i \in 1..NRows |-> id2label[ids[i]]]
    /\ xmap' = xmap_literal
    /\ LET r == map_predictions(xmap', classified')
       IN  IF r.raised
           THEN /\ cell' = "error"
                /\ UNCHANGED <<y_predict, y_true, report>>
           ELSE /\ cell' = to
                /\ y_predict' = r.value
                /\ y_true' = df_label'
                /\ report' = [y_pred |-> y_predict', y_true |-> y_true']
    /\ UNCHANGED <<parser_vars, training_vars, file_label, id2label, sent_map, train_label>>

\* the baseline evaluation cell
BaselineEvaluation ==
    /\ cell = "loaded"
    /\ evaluate("baseline")

\* sent_map = {1:0,0:1,2:2}; df['label'] = df['label'].map(sent_map)
RemapLabels ==
    /\ cell = "baseline"
    /\ sent_map' = sent_map_literal
    /\ df_label' = series_map(sent_map', df_label)
    /\ cell' = "remapped"
    /\ UNCHANGED <<parser_vars, training_vars, file_label, df_texts, id2label, classified,
                   xmap, y_predict, y_true, train_label, report>>

\* the split and fine-tuning cell: the training, validation and test sets
\* are rows of df, with the labels df holds; what the stratified split and
\* the loss make of a NaN label is the libraries' affair, the cell may
\* stop there or go on
FineTune ==
    /\ cell = "remapped"
    /\ \/ /\ train_label' = df_label
          /\ cell' = "trained"
       \/ /\ \E i \in 1..Len(df_label) : df_label[i] = NaN
          /\ cell' = "train_error"
          /\ UNCHANGED train_label
    /\ UNCHANGED <<parser_vars, training_vars, file_label, df_texts, df_label, id2label,
                   classified, xmap, y_predict, y_true, sent_map, report>>

\* the evaluation cell after fine-tuning; the checkpoint keeps the label
\* table of the model it was trained from
FinalEvaluation ==
    /\ cell = "trained"
    /\ evaluate("evaluated")

NotebookNext ==
    \/ LoadModel
    \/ BaselineEvaluation
    \/ RemapLabels
    \/ FineTune
    \/ FinalEvaluation

NotebookSpec == NotebookInit /\ [][NotebookNext]_vars

\* ------------------------------------------------- the fine-tuning run
\* the input file has about the sample's number of rows
TrainingInit ==
    /\ post = << >>
    /\ t_post = << >>
    /\ out = << >>
    /\ out2 = << >>
    /\ calls = 0
    /\ cell = "start"
    /\ file_label = [i \in 1..NRows |-> 0]
    /\ df_texts = << >>
    /\ df_label = << >>
    /\ id2label = << >>
    /\ classified = << >>
    /\ xmap = << >>
    /\ y_predict = << >>
    /\ y_true = << >>
    /\ sent_map = << >>
    /\ train_label = << >>
    /\ report = << >>
    /\ n_rows \in (SampleRows - RowSpread)..(SampleRows + RowSpread)
    /\ n_test = 0
    /\ n_val = 0
    /\ n_train = 0
    /\ global_step = 0
    /\ epoch = 0
    /\ checkpoints = {}
    /\ best_checkpoint = 0
    /\ loaded_checkpoint = 0
    /\ train_pc = "start"

\* the two train_test_split calls: a tenth of df for the test set, then a
\* tenth of the rest for the validation set
SplitData ==
    /\ train_pc = "start"
    /\ n_test' = n_test_of(n_rows)
    /\ n_val' = n_test_of(n_rows - n_test')
    /\ n_train' = n_rows - n_test' - n_val'
    /\ train_pc' = "training"
    /\ UNCHANGED <<parser_vars, notebook_vars, n_rows, global_step, epoch,
                   checkpoints, best_checkpoint, loaded_checkpoint>>

\* one optimisation step of trainer.train() on one batch of the epoch
TrainStep ==
    /\ train_pc = "training"
    /\ epoch < NumEpochs
    /\ global_step < (epoch + 1) * steps_per_epoch(n_train)
    /\ global_step' = global_step + 1
    /\ UNCHANGED <<parser_vars, notebook_vars, n_rows, n_test, n_val, n_train,
                   epoch, checkpoints, best_checkpoint, loaded_checkpoint, train_pc>>

\* the end of an epoch (evaluation_strategy and save_strategy 'epoch'):
\* the validation accuracy is computed, models/checkpoint-<global_step>
\* is written, and it becomes the best one when its accuracy is the
\* highest so far, which the step count does not decide
EndEpoch ==
    /\ train_pc = "training"
    /\ epoch < NumEpochs
    /\ global_step = (epoch + 1) * steps_per_epoch(n_train)
    /\ epoch' = epoch + 1
    /\ checkpoints' = checkpoints \cup {global_step}
    /\ best_checkpoint' \in IF best_checkpoint = 0 THEN {global_step}
                           ELSE {best_checkpoint, global_step}
    /\ UNCHANGED <<parser_vars, notebook_vars, n_rows, n_test, n_val, n_train,
                   global_step, loaded_checkpoint, train_pc>>

\* trainer.train() returns after the last epoch (load_best_model_at_end
\* puts the best checkpoint in the trainer's model, not in a directory)
FinishTraining ==
    /\ train_pc = "training"
    /\ epoch = NumEpochs
    /\ train_pc' = "trained"
    /\ UNCHANGED <<parser_vars, notebook_vars, n_rows, n_test, n_val, n_train,
                   global_step, epoch, checkpoints, best_checkpoint,
                   loaded_checkpoint>>

\* from_pretrained('models/checkpoint-45/'): the directory must exist
LoadCheckpoint ==
    /\ train_pc = "trained"
    /\ IF LoadedStep \in checkpoints
       THEN loaded_checkpoint' = LoadedStep /\ train_pc' = "loaded"
       ELSE loaded_checkpoint' = loaded_checkpoint /\ train_pc' = "load_error"
    /\ UNCHANGED <<parser_vars, notebook_vars, n_rows, n_test, n_val, n_train,
                   global_step, epoch, checkpoints, best_checkpoint>>

TrainingNext ==
    \/ SplitData
    \/ TrainStep
    \/ EndEpoch
    \/ FinishTraining
    \/ LoadCheckpoint

TrainingSpec == TrainingInit /\ [][TrainingNext]_vars

\* ================================================================ claims
\* the whitespace-delimited tokens of the post after entity decoding
tokens_of(s) == split(unescape(s))

\* the tokens of a list of strings, in order
RECURSIVE pieces_of(_)
pieces_of(l) == IF l = << >> THEN << >> ELSE split(l[1]) \o pieces_of(Tail(l))

HasPrefix(z) ==
    \/ StartsWith(z, <<"h","t","t","p">>)
    \/ StartsWith(z, <<"@">>)
    \/ StartsWith(z, <<"$">>)

\* the characters a normalised post may hold, as the claims list them
ClaimChars == Letters \cup Digits \cup {"@", "#", "$", ".", ",", "!", "?", "'"}

OnlyClaimChars(s) == \A k \in 1..Len(s) : s[k] \in ClaimChars \cup Whitespace

\* C1 as stated: for every post, lite_parser(lite_parser(post)) = lite_parser(post)
C1_Idempotent == calls = 2 => out2 = out

\* C1 amended: lite_parser(lite_parser(post)) = lite_parser(post) for every
\* post made only of allowed characters and whitespace
C1_IdempotentOnAllowed == (calls = 2 /\ OnlyClaimChars(post)) => out2 = out

C1_Witness ==
    /\ calls = 2
    /\ OnlyClaimChars(post)
    /\ Len(t_post) >= 2
    /\ out # post
    /\ \E i \in 1..Len(t_post) : t_post[i] \in {Link, Mention, Cashtag}

\* C2: every character of the result of lite_parser is an ASCII letter, an
\* ASCII digit, one of @ # $ . , ! ? ' or a space
C2_AllowedOutput ==
    calls >= 1 => \A k \in 1..Len(out) : out[k] \in ClaimChars \cup {" "}

C2_Witness ==
    /\ calls >= 1
    /\ \E k \in 1..Len(post) : post[k] \notin ClaimChars \cup Whitespace
    /\ \E k \in 1..Len(out) : out[k] = "#"
    /\ \E k \in 1..Len(out) : out[k] = " "

\* C6: a token that starts with http, @ or $ is in the token list as exactly
\* #link, @mention or $cashtag, whatever follows its prefix, untouched by
\* the numeric rule and the character filter, and the result holds the
\* tokens of the list in order
C6_Placeholders ==
    calls >= 1 =>
        LET t == tokens_of(post)
        IN  /\ Len(t_post) = Len(t)
            /\ \A i \in 1..Len(t) :
                  /\ StartsWith(t[i], <<"h","t","t","p">>) => t_post[i] = Link
                  /\ StartsWith(t[i], <<"@">>) => t_post[i] = Mention
                  /\ StartsWith(t[i], <<"$">>) => t_post[i] = Cashtag
            /\ split(out) = pieces_of(t_post)

C6_Witness ==
    /\ calls >= 1
    /\ LET t == tokens_of(post)
       IN  /\ \E i \in 1..Len(t) : StartsWith(t[i], <<"h","t","t","p">>) /\ Len(t[i]) > 4
           /\ \E i \in 1..Len(t) : t[i][1] \in {"@", "$"}
    /\ \E k \in 1..Len(out) : out[k] = " "

\* the length of the number a token begins with, as C7 words it: one or
\* more digits, optionally followed by a decimal point and further digits
claimed_number(z) ==
    LET n == RunEnd(z, 1, Digits) - 1
        m == RunEnd(z, n + 2, Digits) - 1
    IN  IF n >= 1 /\ n + 1 <= Len(z) /\ z[n + 1] = "." /\ m >= n + 2 THEN m ELSE n

\* C7 as stated: a token that begins with a number has exactly that number
\* replaced by #number and keeps the rest
C7_NumberPrefix ==
    calls >= 1 =>
        LET t == tokens_of(post)
        IN  \A i \in 1..Len(t) :
               claimed_number(t[i]) >= 1 =>
                  t_post[i] = filter_chars(Number \o Drop(t[i], claimed_number(t[i]) + 1))

\* C8 as stated: the result has no leading space, no trailing space and no
\* two consecutive spaces
C8_SingleSpaces ==
    calls >= 1 =>
        /\ out # << >> => out[1] # " " /\ out[Len(out)] # " "
        /\ \A k \in 1..(Len(out) - 1) : ~(out[k] = " " /\ out[k + 1] = " ")

\* a token none of the four rewriting rules matches
Unmatched(z) == ~HasPrefix(z) /\ number_match(z) = 0

\* C9 as stated: a token that matches none of the rules is in the result as
\* one token made of its allowed characters in their order
C9_FilterRemoves ==
    calls >= 1 =>
        LET t == tokens_of(post)
        IN  \A i \in 1..Len(t) :
               Unmatched(t[i]) =>
                  strip(t_post[i]) = SelectSeq(t[i], LAMBDA c : c \in ClaimChars)

\* C9 amended: in a token that matches none of the rules the filter puts
\* one space in the place of each character outside the allowed set and
\* leaves the others where they are (a token of allowed characters is
\* unchanged); the result holds what the spaces leave of the tokens, in order
C9_FilterBlanks ==
    calls >= 1 =>
        LET t == tokens_of(post)
        IN  /\ \A i \in 1..Len(t) :
                  Unmatched(t[i]) =>
                     /\ Len(t_post[i]) = Len(t[i])
                     /\ \A k \in 1..Len(t[i]) :
                           t_post[i][k] = IF t[i][k] \in ClaimChars THEN t[i][k] ELSE " "
            /\ pieces_of(t_post) = split(out)

C9_Witness ==
    /\ calls >= 1
    /\ LET t == tokens_of(post)
       IN  \E i \in 1..Len(t) :
              /\ Unmatched(t[i])
              /\ Len(t[i]) >= 3
              /\ t[i][1] \in ClaimChars
              /\ t[i][2] \notin ClaimChars
              /\ t[i][Len(t[i])] \in ClaimChars
    /\ Len(split(out)) > Len(t_post)

IsSentimentTable(t) ==
    /\ DOMAIN t = 0..2
    /\ \A k \in 0..2 : t[k] \in Sentiments
    /\ \A a, b \in 0..2 : t[a] = t[b] => a = b

\* every row of df whose file label is one of 0, 1, 2 carries the model id
\* that names, under id2label, the sentiment of the file label
RowsAligned ==
    \A i \in 1..Len(df_label) :
        file_label[i] \in 0..2 =>
            /\ df_label[i] \in 0..2
            /\ id2label[df_label[i]] = dataset_label[file_label[i]]

\* C3: with the table of the loaded finbert model the remap sends negative
\* 0 to 1, positive 1 to 0 and neutral 2 to 2, each the model id of the
\* sentiment the dataset label has
C3_RemapAligns ==
    (cell \in {"remapped", "trained"} /\ id2label = finbert_id2label) =>
        /\ sent_map[0] = 1 /\ sent_map[1] = 0 /\ sent_map[2] = 2
        /\ \A d \in 0..2 : id2label[sent_map[d]] = dataset_label[d]
        /\ RowsAligned

C3_Witness ==
    /\ cell = "remapped"
    /\ id2label = finbert_id2label
    /\ \E i, j \in 1..Len(df_label) : file_label[i] = 0 /\ file_label[j] = 1

\* C4: xmap is a bijection between the three sentiment names and 0, 1, 2
\* and agrees with the dataset convention in both directions
C4_XmapBijection ==
    cell \notin {"start", "loaded"} =>
        /\ DOMAIN xmap = Sentiments
        /\ {xmap[c] : c \in Sentiments} = 0..2
        /\ \A c, e \in Sentiments : xmap[c] = xmap[e] => c = e
        /\ \A d \in 0..2 : xmap[dataset_label[d]] = d
        /\ \A c \in Sentiments : dataset_label[xmap[c]] = c

C4_Witness ==
    /\ cell = "baseline"
    /\ \E i, j \in 1..Len(y_predict) : y_predict[i] = 0 /\ y_predict[j] = 1

\* C5: an evaluation cell whose classifier returns a label that is no key
\* of xmap ends in an error and assigns no y_predict; a y_predict it does
\* assign holds xmap's integer for each returned label
C5_UnknownLabelRaises ==
    [][cell' # cell /\ cell' \in {"baseline", "evaluated", "error"} =>
          IF \E i \in 1..Len(classified') : classified'[i] \notin Sentiments
          THEN cell' = "error" /\ y_predict' = y_predict /\ y_true' = y_true
          ELSE /\ cell' # "error"
               /\ Len(y_predict') = Len(classified')
               /\ \A i \in 1..Len(classified') : y_predict'[i] = xmap'[classified'[i]]]_vars

C5_Witness ==
    /\ cell = "error"
    /\ \E i \in 1..Len(classified) : classified[i] \notin Sentiments
    /\ y_predict = << >>

\* C10 as stated: for every id2label that is a bijection between 0, 1, 2
\* and the three sentiments, each remapped label names under that table the
\* sentiment its dataset label has
C10_RemapDerived ==
    (cell \in {"remapped", "trained"} /\ IsSentimentTable(id2label)) => RowsAligned

\* C11 as stated: the remap stops with an error at a dataset label outside
\* 0, 1, 2 and never leaves a missing or substituted value in the column
C11_EagerLabelError ==
    (\E i \in 1..NRows : file_label[i] \notin 0..2) =>
        /\ cell \notin {"remapped", "trained"}
        /\ \A i \in 1..Len(df_label) : df_label[i] # NaN

\* the string lite_parser builds from the stripped tokens, before the
\* final split
joined(l) == strip(join(<<" ">>, strip_nonblank(l)))

\* s holds sep at position k
OccursAt(s, sep, k) == k + Len(sep) - 1 <= Len(s) /\ SubSeq(s, k, k + Len(sep) - 1) = sep

\* C12: the string built from the stripped tokens holds no backslash, no +
\* and so no \w+; the split on '\w+' gives the one-element list of that
\* string and the join returns it unchanged, the empty string included
C12_FinalSplitNoOp ==
    calls >= 1 =>
        LET j == joined(t_post)
        IN  /\ \A k \in 1..Len(j) : j[k] \notin {"\\", "+"}
            /\ \A k \in 1..Len(j) : ~OccursAt(j, <<"\\", "w", "+">>, k)
            /\ split_sep(j, WordSep) = <<j>>
            /\ out = j

C12_Witness ==
    /\ calls >= 1
    /\ \E k \in 1..Len(post) : OccursAt(post, <<"\\", "w", "+">>, k)
    /\ Len(t_post) >= 2
    /\ \E k \in 1..Len(out) : out[k] = "w"

\* the label the sentiment c has in the file's convention
dataset_id(c) == CHOOSE d \in 0..2 : dataset_label[d] = c

\* C13: at every classification_report call y_true is the label column of
\* the file and y_predict holds, for each text, the file's integer of the
\* predicted sentiment; after the remap an evaluation has reloaded the file,
\* so the switch of 0 and 1 is in the labels given to the trainer only
C13_SameConvention ==
    /\ cell \in {"baseline", "evaluated"} =>
          /\ report.y_true = file_label
          /\ report.y_pred = y_predict
          /\ Len(report.y_pred) = Len(report.y_true)
          /\ \A i \in 1..Len(report.y_pred) :
                report.y_pred[i] = dataset_id(classified[i])
    /\ cell \in {"trained", "evaluated"} =>
          \A i \in 1..Len(train_label) :
             file_label[i] \in 0..2 =>
                train_label[i] = IF file_label[i] = 2 THEN 2 ELSE 1 - file_label[i]

C13_Witness ==
    /\ cell = "evaluated"
    /\ train_label # file_label
    /\ report.y_true = file_label
    /\ \E i \in 1..NRows : file_label[i] = 0
    /\ \E i \in 1..NRows : file_label[i] = 1

\* the largest element of a non-empty set of integers
Max(S) == CHOOSE m \in S : \A k \in S : k <= m

\* C14: with 345 rows the training set has 279 rows and the validation set
\* 31, an epoch has 9 steps, the checkpoints are written at steps 9, 18,
\* 27, 36 and 45, training ends at step 45, and models/checkpoint-45/ is
\* there to be loaded and is the checkpoint of the last epoch, whichever
\* one the trainer holds as best
C14_LastCheckpoint ==
    n_rows = 345 =>
        /\ train_pc # "start" =>
              /\ n_train = 279 /\ n_val = 31
              /\ steps_per_epoch(n_train) = 9
              /\ global_step <= 45
              /\ checkpoints = {9 * k : k \in 1..epoch}
        /\ train_pc \in {"trained", "loaded"} =>
              /\ global_step = 45
              /\ checkpoints = {9, 18, 27, 36, 45}
              /\ best_checkpoint \in checkpoints
        /\ train_pc # "load_error"
        /\ train_pc = "loaded" =>
              /\ loaded_checkpoint = 45
              /\ loaded_checkpoint = Max(checkpoints)
              /\ loaded_checkpoint = global_step

C14_Witness ==
    /\ n_rows = 345
    /\ train_pc = "loaded"
    /\ best_checkpoint = 9
    /\ loaded_checkpoint = 45

====
